---- MODULE Spec2Model ----
(***************************************************************************)
(* Model of backend/app/tools.py: the retrieval tool factory and its       *)
(* lru_cache, the CSV / upload / directory-listing utilities, the tool     *)
(* registry and the import-time validation loop.                           *)
(***************************************************************************)
EXTENDS Integers, Sequences, FiniteSets, TLC

VARIABLES
    cache,      \* lru_cache of get_retrieval_tool: entries, least recently used first
    built,      \* per key: how many tools create_retriever_tool has constructed for it
    misses,     \* cache_info().misses: how often the wrapped function has run
    lastTool,   \* per key: the tool the latest call with that key returned (NoTool if none)
    call,       \* the latest get_retrieval_tool call: its arguments and its return value
    env,        \* os.environ: the names of the variables that are set
    dirs,       \* the directories that exist on the local filesystem
    files,      \* the regular files that exist: path -> content
    created,    \* the paths create_csv has written
    unavailable,\* the tool classes whose dependencies are broken in this installation
    connery,    \* lru_cache(maxsize=1) of _get_connery_actions: NoTool or the tools
    pc,         \* the import of the module: "validating", "done" or "failed"
    idx,        \* the position of the validation loop in TOOLS
    validated,  \* the registry keys whose factory the validation loop has invoked, in order
    result      \* the outcome of the latest operation: what it returned or raised

cacheVars == <<cache, built, misses, lastTool, call>>

inputs == <<env>>

fsVars == <<dirs, files, created>>

startVars == <<unavailable, connery, pc, idx, validated>>

vars == <<cache, built, misses, lastTool, call, env, dirs, files, created, unavailable,
          connery, pc, idx, validated, result>>

\* Python's None, where a tool or a call record is expected.
NoTool == [none |-> TRUE]

NoCall == [none |-> TRUE, hit |-> FALSE]

(***************************************************************************)
(* Retrieval tool factory                                                  *)
(***************************************************************************)

\* lru_cache(maxsize=5)
maxsize == 5

NumAssistants == 3
\* Enough constructions to fill the cache, evict an entry and construct the
\* evicted key again.
MaxBuilds == maxsize + 2

AssistantIds == 1..NumAssistants

RETRIEVAL_DESCRIPTION == "Can be used to look up information that was uploaded to this assistant."

Descriptions == {RETRIEVAL_DESCRIPTION, "custom description"}

Keys == [assistant_id : AssistantIds, description : Descriptions]

\* The shared vector store: documents tagged with the namespace of the
\* assistant that uploaded them.
vstore == [doc : {"x", "y"}, namespace : AssistantIds]

\* RedisFilter.tag("namespace") == assistant_id, applied at query time.
RedisFilter_matches(filter, document) == document.namespace = filter.namespace

\* vstore.as_retriever(search_kwargs={"filter": ...}): the documents a query
\* through the retriever can return.
retrieve(retriever) == {d \in vstore : RedisFilter_matches(retriever.filter, d)}

get_retriever_shared(assistant_id) == [filter |-> [namespace |-> 1]]

get_retriever(assistant_id) == [filter |-> [namespace |-> assistant_id]]

\* The body of get_retrieval_tool; n is the identity of the object constructed
\* (the n-th tool constructed for these arguments).
create_retriever_tool(assistant_id, description, n) ==
    [inst        |-> <<assistant_id, description, n>>,
     retriever   |-> get_retriever(assistant_id),
     name        |-> "Retriever",
     description |-> description]

\* The key lru_cache makes of the call's positional arguments.
make_key_description_only(assistant_id, description) ==
    [assistant_id |-> 1, description |-> description]

make_key(assistant_id, description) ==
    [assistant_id |-> assistant_id, description |-> description]

CachedKeys == {cache[i].key : i \in 1..Len(cache)}

IndexOf(key) == CHOOSE i \in 1..Len(cache) : cache[i].key = key

Remove(s, i) == SubSeq(s, 1, i - 1) \o SubSeq(s, i + 1, Len(s))

\* Where a full cache makes room: the least recently used entry is dropped.
evict_mru(entries) == SubSeq(entries, 1, Len(entries) - 1)

evict(entries) == Tail(entries)

\* A cache hit: the entry moves to the most recently used end, nothing is built.
CacheHit(assistant_id, description) ==
    LET key == make_key(assistant_id, description) IN
    /\ key \in CachedKeys
    /\ LET i == IndexOf(key)
           e == cache[i]
       IN  /\ cache' = Append(Remove(cache, i), e)
           /\ call' = [assistant_id |-> assistant_id, description |-> description,
                       ret |-> e.tool, hit |-> TRUE]
           /\ lastTool' = [lastTool EXCEPT
                             ![[assistant_id |-> assistant_id,
                                description |-> description]] = e.tool]
    /\ UNCHANGED <<built, misses, inputs, fsVars, startVars, result>>

\* A cache miss: the wrapped function runs once, and its result is stored as
\* the most recently used entry, in place of the oldest one if the cache is full.
CacheMiss(assistant_id, description) ==
    LET key  == make_key(assistant_id, description)
        args == [assistant_id |-> assistant_id, description |-> description]
    IN
    /\ key \notin CachedKeys
    /\ misses < MaxBuilds
    /\ LET tool == create_retriever_tool(assistant_id, description, built[args] + 1)
           room == IF Len(cache) >= maxsize THEN evict(cache) ELSE cache
       IN  /\ cache' = Append(room, [key |-> key, tool |-> tool])
           /\ built' = [built EXCEPT ![args] = @ + 1]
           /\ misses' = misses + 1
           /\ call' = [assistant_id |-> assistant_id, description |-> description,
                       ret |-> tool, hit |-> FALSE]
           /\ lastTool' = [lastTool EXCEPT ![args] = tool]
    /\ UNCHANGED <<inputs, fsVars, startVars, result>>

get_retrieval_tool(assistant_id, description) ==
    \/ CacheHit(assistant_id, description)
    \/ CacheMiss(assistant_id, description)

CacheInit ==
    /\ cache = <<>>
    /\ built = [k \in Keys |-> 0]
    /\ misses = 0
    /\ lastTool = [k \in Keys |-> NoTool]
    /\ call = NoCall

(***************************************************************************)
(* The local filesystem and os.path                                        *)
(***************************************************************************)

\* A path: whether it starts at the root, and its components.
Path(abs, parts) == [abs |-> abs, parts |-> parts]

\* The process's working directory and the directories around it.
CWD == Path(FALSE, <<>>)

ROOT == Path(TRUE, <<>>)

TMP == Path(TRUE, <<"tmp">>)

\* folder_path = "data"
DATA == Path(FALSE, <<"data">>)

\* os.path.join(a, b): an absolute b discards a.
os_path_join(a, b) == IF b.abs THEN b ELSE Path(a.abs, a.parts \o b.parts)

os_path_dirname(p) == Path(p.abs, SubSeq(p.parts, 1, Len(p.parts) - 1))

\* os.path.basename(p), and p.split('/')[-1]
os_path_basename(p) == p.parts[Len(p.parts)]

Raise(exc) == [kind |-> "raise", exc |-> exc]

Raised(r) == r.kind = "raise"

\* os.listdir(folder_path): the names in the directory, or FileNotFoundError.
os_listdir(folder_path) ==
    IF folder_path \notin dirs
    THEN Raise("FileNotFoundError")
    ELSE [kind  |-> "names",
          names |-> {os_path_basename(p) :
                       p \in {q \in (DOMAIN files) \cup dirs :
                                /\ Len(q.parts) > 0
                                /\ os_path_dirname(q) = folder_path}}]

get_all_files_in_data_folder_of(folder_path) == os_listdir(folder_path)

\* get_all_files_in_data_folder(folder_path="data")
get_all_files_in_data_folder == get_all_files_in_data_folder_of(DATA)

(***************************************************************************)
(* csv.writer, and csv.reader for reading a written file back              *)
(***************************************************************************)

CR == "\r"

LF == "\n"

QUOTE == "\""

DELIMITER == ","

\* Flattens a sequence of character sequences.
Concat(ss) ==
    LET RECURSIVE F(_)
        F(t) == IF t = <<>> THEN <<>> ELSE Head(t) \o F(Tail(t))
    IN  F(ss)

\* QUOTE_MINIMAL: a field is quoted when it holds the delimiter, the quote
\* character or a character of the line terminator.
needs_quotes_delimiter_only(field) ==
    \E i \in 1..Len(field) : field[i] = DELIMITER

needs_quotes(field) ==
    \E i \in 1..Len(field) : field[i] \in {DELIMITER, QUOTE, CR, LF}

\* doublequote: a quote character inside a quoted field is written twice.
quoted(field) ==
    <<QUOTE>>
    \o Concat([i \in 1..Len(field) |->
                 IF field[i] = QUOTE THEN <<QUOTE, QUOTE>> ELSE <<field[i]>>])
    \o <<QUOTE>>

write_field(field) == IF needs_quotes(field) THEN quoted(field) ELSE field

\* writer.writerow(row): the fields joined by the delimiter, then "\r\n"; a row
\* of one empty field is written as a pair of quotes.
writerow(row) ==
    IF Len(row) = 1 /\ row[1] = <<>>
    THEN <<QUOTE, QUOTE, CR, LF>>
    ELSE Concat([i \in 1..Len(row) |->
                   (IF i > 1 THEN <<DELIMITER>> ELSE <<>>) \o write_field(row[i])])
         \o <<CR, LF>>

\* What the with block of create_csv leaves in the file.
written(header, data) ==
    writerow(header) \o Concat([i \in 1..Len(data) |-> writerow(data[i])])

EOL == "EOL"

\* The lines a file opened with newline='' yields, as one stream: the reader
\* is told of the end of a line after "\n", after "\r\n", after a "\r" that no
\* "\n" follows, and after the last character.
lines(content) ==
    Concat([i \in 1..Len(content) |->
              IF \/ content[i] = LF
                 \/ content[i] = CR /\ ~(i < Len(content) /\ content[i + 1] = LF)
                 \/ i = Len(content)
              THEN <<content[i], EOL>> ELSE <<content[i]>>])

save_field(p) == [p EXCEPT !.fields = Append(@, p.field), !.field = <<>>]

add_char(p, c) == [p EXCEPT !.field = Append(@, c)]

to(p, state) == [p EXCEPT !.state = state]

after_newline(c) == IF c = EOL THEN "START_RECORD" ELSE "EAT_CRNL"

\* parse_process_char of the reader, for the excel dialect.
parse_process_char(p, c) ==
    LET start_field ==
            IF c \in {LF, CR, EOL} THEN to(save_field(p), after_newline(c))
            ELSE IF c = QUOTE THEN to(p, "IN_QUOTED_FIELD")
            ELSE IF c = DELIMITER THEN to(save_field(p), "START_FIELD")
            ELSE to(add_char(p, c), "IN_FIELD")
    IN
    CASE p.state = "START_RECORD" ->
           IF c = EOL THEN p
           ELSE IF c \in {LF, CR} THEN to(p, "EAT_CRNL")
           ELSE start_field
      [] p.state = "START_FIELD" -> start_field
      [] p.state = "IN_FIELD" ->
           IF c \in {LF, CR, EOL} THEN to(save_field(p), after_newline(c))
           ELSE IF c = DELIMITER THEN to(save_field(p), "START_FIELD")
           ELSE add_char(p, c)
      [] p.state = "IN_QUOTED_FIELD" ->
           IF c = EOL THEN p
           ELSE IF c = QUOTE THEN to(p, "QUOTE_IN_QUOTED_FIELD")
           ELSE add_char(p, c)
      [] p.state = "QUOTE_IN_QUOTED_FIELD" ->
           IF c = QUOTE THEN to(add_char(p, c), "IN_QUOTED_FIELD")
           ELSE IF c = DELIMITER THEN to(save_field(p), "START_FIELD")
           ELSE IF c \in {LF, CR, EOL} THEN to(save_field(p), after_newline(c))
           ELSE to(add_char(p, c), "IN_FIELD")
      [] p.state = "EAT_CRNL" ->
           IF c \in {LF, CR} THEN p
           ELSE IF c = EOL THEN to(p, "START_RECORD")
           ELSE to(p, "ERROR")
      [] OTHER -> p

\* list(csv.reader(f)): a record ends where the end of a line leaves the
\* parser at the start of a record; a quoted field left open at the end of
\* the file closes the last record.
csv_reader(content) ==
    LET start == [state |-> "START_RECORD", field |-> <<>>, fields |-> <<>>,
                  records |-> <<>>]
        RECURSIVE Run(_, _)
        Run(p, t) ==
            IF t = <<>> THEN p
            ELSE LET q == parse_process_char(p, Head(t)) IN
                 IF Head(t) = EOL /\ q.state = "START_RECORD"
                 THEN Run([q EXCEPT !.records = Append(@, q.fields),
                                    !.fields = <<>>], Tail(t))
                 ELSE Run(q, Tail(t))
        end == Run(start, lines(content))
    IN  IF end.state = "ERROR" THEN <<"Error">>
        ELSE IF end.field # <<>> \/ end.state = "IN_QUOTED_FIELD"
        THEN Append(end.records, Append(end.fields, end.field))
        ELSE end.records

(***************************************************************************)
(* create_csv, the two uploads and the directory-listing tool              *)
(***************************************************************************)

\* create_csv(header, data, file_name)
create_csv(header, data, file_name) ==
    LET csv_file == os_path_join(DATA, file_name)
        made     == dirs \cup {DATA}
    IN
    /\ pc = "done"
    /\ dirs' = made
    /\ IF os_path_dirname(csv_file) \notin made
       THEN /\ result' = [op |-> "create_csv", header |-> header, data |-> data,
                        file_name |-> file_name,
                        existed |-> csv_file \in DOMAIN files,
                        out |-> Raise("FileNotFoundError")]
            /\ UNCHANGED <<files, created>>
       ELSE /\ files' = [p \in (DOMAIN files) \cup {csv_file} |->
                           IF p = csv_file THEN written(header, data) ELSE files[p]]
            /\ created' = created \cup {csv_file}
            /\ result' = [op |-> "create_csv", header |-> header, data |-> data,
                        file_name |-> file_name,
                        existed |-> csv_file \in DOMAIN files,
                        out |-> [kind |-> "path", path |-> csv_file]]
    /\ UNCHANGED <<cacheVars, inputs, startVars>>

\* What s3_client.upload_file may do with a file that exists.
UploadOutcomes == {"ok", "NoCredentialsError", "S3UploadFailedError"}

\* s3_client.upload_file(file_path, ...): a missing local file is an error
\* raised before anything is sent.
upload_file(file_path, outcome) ==
    IF file_path \notin DOMAIN files THEN "FileNotFoundError" ELSE outcome

Url(host, object_name) ==
    [kind |-> "url", bucket |-> "tesa-medication-schedules", host |-> host,
     key |-> object_name]

PyNone == [kind |-> "None"]

\* try: upload_file ... except NoCredentialsError: return None
wasabi_result(sdk, object_name) ==
    IF sdk = "ok" THEN Url("s3.ap-southeast-1.wasabisys.com", object_name)
    ELSE IF sdk = "NoCredentialsError" THEN PyNone
    ELSE Raise(sdk)

\* try: upload_file ... except Exception: return None
s3_result(sdk, object_name) ==
    IF sdk = "ok" THEN Url("s3.ap-southeast-1.amazonaws.com", object_name)
    ELSE PyNone

\* upload_file_to_wasabi(file_name)
upload_file_to_wasabi(file_name) ==
    /\ pc = "done"
    /\ \E outcome \in UploadOutcomes :
         LET object_name == os_path_basename(file_name)
             file_path   == os_path_join(DATA, file_name)
             sdk         == upload_file(file_path, outcome)
         IN  result' =
               IF ~({"WASABI_ACCESS_KEY", "WASABI_SECRET_KEY"} \subseteq env)
               THEN [op |-> "upload_file_to_wasabi", file_name |-> file_name,
                     sdk |-> "not called", out |-> Raise("KeyError")]
               ELSE [op |-> "upload_file_to_wasabi", file_name |-> file_name,
                     sdk |-> sdk, out |-> wasabi_result(sdk, object_name)]
    /\ UNCHANGED <<cacheVars, inputs, fsVars, startVars>>

\* upload_file_to_s3(file_name), which UploadCSV._run and _arun call
upload_file_to_s3(file_name) ==
    /\ pc = "done"
    /\ \E outcome \in UploadOutcomes :
         LET object_name == os_path_basename(file_name)
             file_path   == os_path_join(DATA, file_name)
             sdk         == upload_file(file_path, outcome)
         IN  result' =
               IF ~({"AWS_ACCESS_KEY_ID", "AWS_SECRET_ACCESS_KEY"} \subseteq env)
               THEN [op |-> "upload_file_to_s3", file_name |-> file_name,
                     sdk |-> "not called", out |-> Raise("KeyError")]
               ELSE [op |-> "upload_file_to_s3", file_name |-> file_name,
                     sdk |-> sdk, out |-> s3_result(sdk, object_name)]
    /\ UNCHANGED <<cacheVars, inputs, fsVars, startVars>>

\* The tool with its argument passed on to the listing.
GetFilesInDataFolder_passes_folder(entry_point, folder_path) ==
    get_all_files_in_data_folder_of(folder_path)

\* GetFilesInDataFolder._run(folder_path) and ._arun(folder_path)
GetFilesInDataFolder(entry_point, folder_path) ==
    IF entry_point = "_run"
    THEN get_all_files_in_data_folder_of(DATA)
    ELSE get_all_files_in_data_folder_of(DATA)

ListFiles(entry_point, folder_path) ==
    /\ pc = "done"
    /\ result' = [op |-> "list", entry_point |-> entry_point,
                  folder_path |-> folder_path,
                  out |-> GetFilesInDataFolder(entry_point, folder_path)]
    /\ UNCHANGED <<cacheVars, inputs, fsVars, startVars>>

(***************************************************************************)
(* The registry and the validation loop run when the module is imported    *)
(***************************************************************************)

CONNERY == "\"AI Action Runner\" by Connery"

RETRIEVAL == "Retrieval"

CREATE_CSV == "Create CSV"

UPLOAD_CSV == "Upload CSV"

GET_ALL_FILES == "Get all files in data folder"

AvailableTools == {CONNERY, RETRIEVAL, CREATE_CSV, UPLOAD_CSV, GET_ALL_FILES}

\* The registry with an entry left out.
TOOLS_without_upload ==
    << [key |-> CONNERY,       factory |-> "_get_connery_actions"],
       [key |-> CREATE_CSV,    factory |-> "CreateCSV"],
       [key |-> GET_ALL_FILES, factory |-> "get_all_files_in_data_folder"] >>

\* The registry, in the order the dict literal lists its entries.
TOOLS ==
    << [key |-> CONNERY,       factory |-> "_get_connery_actions"],
       [key |-> CREATE_CSV,    factory |-> "CreateCSV"],
       [key |-> UPLOAD_CSV,    factory |-> "UploadCSV"],
       [key |-> GET_ALL_FILES, factory |-> "get_all_files_in_data_folder"] >>

ToolKeys == {TOOLS[i].key : i \in 1..Len(TOOLS)}

Entries(k) == {i \in 1..Len(TOOLS) : TOOLS[i].key = k}

ConneryEnv == {"CONNERY_RUNNER_URL", "CONNERY_RUNNER_API_KEY"}

\* What the remote action runner may answer to ConneryToolkit.create_instance.
ConneryReplies == {"actions", "rejected"}

\* _get_connery_actions(): ConneryService refuses to be constructed without its
\* URL and API key; with them, the toolkit asks the runner for its actions. The
\* lru_cache keeps a returned value, never an exception.
get_connery_actions(reply) ==
    IF connery # NoTool THEN connery
    ELSE IF ~(ConneryEnv \subseteq env) THEN Raise("ValueError")
    ELSE IF reply = "rejected" THEN Raise("ConneryError")
    ELSE [kind |-> "tools", of |-> "ConneryAction"]

\* CreateCSV() and UploadCSV(): the construction of a BaseTool.
construct(class, key) ==
    IF key \in unavailable THEN Raise("ImportError")
    ELSE [kind |-> "tool", of |-> class]

\* v(): what calling the factory registered under an entry returns or raises.
invoke(entry, reply) ==
    CASE entry.factory = "_get_connery_actions" -> get_connery_actions(reply)
      [] entry.factory = "CreateCSV" -> construct("CreateCSV", entry.key)
      [] entry.factory = "UploadCSV" -> construct("UploadCSV", entry.key)
      [] entry.factory = "get_all_files_in_data_folder" -> get_all_files_in_data_folder

connery_after(entry, outcome) ==
    IF entry.factory = "_get_connery_actions" /\ ~Raised(outcome)
    THEN outcome ELSE connery

\* if k != AvailableTools.CONNERY
checked_all(k) == TRUE

checked(k) == k # CONNERY

\* An exception of v() leaves the for loop and ends the import.
after_swallowed(outcome) == "validating"

after(outcome) == IF Raised(outcome) THEN "failed" ELSE "validating"

\* One iteration of "for k, v in TOOLS.items()".
Validate ==
    /\ pc = "validating"
    /\ idx <= Len(TOOLS)
    /\ LET entry == TOOLS[idx] IN
       IF checked(entry.key)
       THEN \E reply \in ConneryReplies :
              LET outcome == invoke(entry, reply) IN
              /\ validated' = Append(validated, entry.key)
              /\ connery' = connery_after(entry, outcome)
              /\ pc' = after(outcome)
              /\ result' = [op |-> "validate", key |-> entry.key, out |-> outcome]
       ELSE UNCHANGED <<validated, connery, pc, result>>
    /\ idx' = idx + 1
    /\ UNCHANGED <<cacheVars, inputs, fsVars, unavailable>>

\* The loop is exhausted: the import is complete and TOOLS can be used.
Imported ==
    /\ pc = "validating"
    /\ idx > Len(TOOLS)
    /\ pc' = "done"
    /\ UNCHANGED <<cacheVars, inputs, fsVars, unavailable, connery, idx, validated, result>>

\* A session looks a member of AvailableTools up in TOOLS and calls the factory.
UseTool(k) ==
    /\ pc = "done"
    /\ IF Entries(k) = {}
       THEN /\ result' = [op |-> "use", key |-> k, out |-> Raise("KeyError")]
            /\ UNCHANGED connery
       ELSE \E i \in Entries(k), reply \in ConneryReplies :
              LET outcome == invoke(TOOLS[i], reply) IN
              /\ result' = [op |-> "use", key |-> k, out |-> outcome]
              /\ connery' = connery_after(TOOLS[i], outcome)
    /\ UNCHANGED <<cacheVars, inputs, fsVars, unavailable, pc, idx, validated>>

\* The keys of TOOLS in registry order, the action runner's left out.
Expected == SelectSeq([i \in 1..Len(TOOLS) |-> TOOLS[i].key], LAMBDA k : k # CONNERY)

NoResult == [op |-> "none"]

FsEmpty ==
    /\ files = <<>>
    /\ created = {}

StartInit ==
    /\ unavailable = {}
    /\ connery = NoTool
    /\ pc = "validating"
    /\ idx = 1
    /\ validated = <<>>

(***************************************************************************)
(* Specifications                                                          *)
(***************************************************************************)

InitCache ==
    /\ CacheInit
    /\ StartInit
    /\ env = {}
    /\ dirs = {ROOT, CWD, TMP}
    /\ FsEmpty
    /\ result = NoResult

NextCache == \E a \in AssistantIds, d \in Descriptions : get_retrieval_tool(a, d)

SpecCache == InitCache /\ [][NextCache]_vars

\* The import of the module in any environment: which variables are set,
\* whether the data directory exists and what it holds, which tool classes
\* can be constructed.
InitStartup ==
    /\ CacheInit
    /\ env \in SUBSET ConneryEnv
    /\ \E d \in SUBSET {DATA} : dirs = {ROOT, CWD, TMP} \cup d
    /\ \E names \in SUBSET {"a.csv", "b.csv"} :
         /\ (names # {} => DATA \in dirs)
         /\ files = [p \in {os_path_join(DATA, Path(FALSE, <<n>>)) : n \in names} |-> <<>>]
    /\ created = {}
    /\ unavailable \in SUBSET {CREATE_CSV, UPLOAD_CSV}
    /\ connery = NoTool
    /\ pc = "validating"
    /\ idx = 1
    /\ validated = <<>>
    /\ result = NoResult

NextStartup ==
    \/ Validate
    \/ Imported
    \/ \E k \in AvailableTools : UseTool(k)

SpecStartup == InitStartup /\ [][NextStartup]_vars

\* The inputs of create_csv: cells over a small alphabet, rows and requests
\* within a budget of rows, cells and characters.
MaxRows == 2

MaxCells == 2

MaxChars == 2

Alphabet == {"a", DELIMITER, QUOTE, LF}

\* The rows of exactly c cells and k characters.
RECURSIVE RowSet(_, _)
RowSet(c, k) ==
    IF c = 0 THEN (IF k = 0 THEN {<<>>} ELSE {})
    ELSE UNION {{<<s>> \o r : s \in [1..n -> Alphabet], r \in RowSet(c - 1, k - n)} :
                  n \in 0..k}

\* The sequences of at most n rows, of at most c cells and k characters in all.
RECURSIVE RowSeqs(_, _, _)
RowSeqs(n, c, k) ==
    {<<>>} \cup
    (IF n = 0 THEN {}
     ELSE UNION {{<<r>> \o rest : r \in RowSet(c1, k1),
                                  rest \in RowSeqs(n - 1, c - c1, k - k1)} :
                   c1 \in 0..c, k1 \in 0..k})

A_CSV == Path(FALSE, <<"a.csv">>)

B_CSV == Path(FALSE, <<"b.csv">>)

TMP_CSV == Path(TRUE, <<"tmp", "a.csv">>)

SUB_CSV == Path(FALSE, <<"sub", "a.csv">>)

FileNames == {A_CSV, TMP_CSV}

\* The header and the rows of a request, the header first.
Requests == RowSeqs(MaxRows + 1, MaxCells, MaxChars) \ {<<>>}

\* What a file written earlier may hold.
Stale == <<"o", "l", "d", CR, LF, "o", "l", "d", CR, LF, "o", "l", "d", CR, LF>>

\* The filesystems a create_csv call may find: the data directory may be
\* missing, and the target file may exist already.
InitCsv ==
    /\ CacheInit
    /\ env = {}
    /\ \E d \in SUBSET {DATA}, old \in {{}, {os_path_join(DATA, A_CSV), TMP_CSV}} :
         /\ dirs = {ROOT, CWD, TMP} \cup d
         /\ \A p \in old : os_path_dirname(p) \in dirs
         /\ files = [p \in old |-> Stale]
    /\ created = {}
    /\ unavailable = {}
    /\ connery = NoTool
    /\ pc = "done"
    /\ idx = Len(TOOLS) + 1
    /\ validated = Expected
    /\ result = NoResult

\* One create_csv call, on any request.
NextCsv ==
    /\ result = NoResult
    /\ \E r \in Requests, f \in FileNames : create_csv(Head(r), Tail(r), f)

SpecCsv == InitCsv /\ [][NextCsv]_vars

\* Two requests of different content.
SmallRequests ==
    {[header |-> <<<<"a">>>>, data |-> <<>>],
     [header |-> <<<<"a">>, <<DELIMITER>>>>, data |-> <<<<<<QUOTE>>>>, <<>>>>]}

UploadEnv == {"AWS_ACCESS_KEY_ID", "AWS_SECRET_ACCESS_KEY",
              "WASABI_ACCESS_KEY", "WASABI_SECRET_KEY"}

Folders == {DATA, TMP, Path(FALSE, <<"nowhere">>)}

\* The tools at work after the import: any interleaving of create_csv, the
\* uploads and the listing tool, in any environment.
InitFiles ==
    /\ CacheInit
    /\ env \in SUBSET UploadEnv
    /\ \E d \in SUBSET {DATA} : dirs = {ROOT, CWD, TMP} \cup d
    /\ files = <<>>
    /\ created = {}
    /\ unavailable = {}
    /\ connery = NoTool
    /\ pc = "done"
    /\ idx = Len(TOOLS) + 1
    /\ validated = Expected
    /\ result = NoResult

NextFiles ==
    \/ \E r \in SmallRequests, f \in FileNames \cup {B_CSV, SUB_CSV} :
         create_csv(r.header, r.data, f)
    \/ \E f \in FileNames \cup {B_CSV, SUB_CSV} : upload_file_to_s3(f)
    \/ \E f \in FileNames \cup {B_CSV, SUB_CSV} : upload_file_to_wasabi(f)
    \/ \E e \in {"_run", "_arun"}, folder \in Folders : ListFiles(e, folder)

SpecFiles == InitFiles /\ [][NextFiles]_vars

(***************************************************************************)
(* Properties of the retrieval tool factory                                *)
(***************************************************************************)

CallKey(c) == [assistant_id |-> c.assistant_id, description |-> c.description]

\* C2: the tool a call with assistant id A returns (on a miss, on a hit, on a
\* reconstruction after eviction) filters on namespace == A, and a query
\* through it returns no document tagged with another assistant id; the same
\* holds of the tool last returned for every key.
C2_TenantIsolation ==
    /\ call # NoCall =>
         /\ call.ret.retriever.filter.namespace = call.assistant_id
         /\ \A d \in retrieve(call.ret.retriever) : d.namespace = call.assistant_id
    /\ \A k \in Keys : lastTool[k] # NoTool =>
         \A d \in retrieve(lastTool[k].retriever) : d.namespace = k.assistant_id

\* A hit on a key that was evicted and constructed again, while tools of other
\* assistants are cached, and the query returns documents.
C2_Witness ==
    /\ call # NoCall
    /\ call.hit
    /\ built[CallKey(call)] = 2
    /\ \E k \in CachedKeys : k.assistant_id # call.assistant_id
    /\ retrieve(call.ret.retriever) # {}

\* C3 as stated: a call returns the same instance as the previous call with
\* the same (assistant_id, description), whatever happened in between.
C3_AlwaysSameInstance ==
    [][call' # NoCall =>
         (lastTool[CallKey(call')] # NoTool =>
              call'.ret.inst = lastTool[CallKey(call')].inst)]_vars

\* C3 amended: a call returns the same instance as the previous call with the
\* same (assistant_id, description) as long as that key's entry is still in the
\* cache (it has not been evicted in between), and the tools returned for two
\* different assistant ids are always distinct instances.
C3_SameInstanceWhileCached ==
    /\ [][call' # NoCall =>
            ((CallKey(call') \in CachedKeys /\ lastTool[CallKey(call')] # NoTool) =>
                 call'.ret.inst = lastTool[CallKey(call')].inst)]_vars
    /\ [](\A k1, k2 \in Keys :
             (/\ lastTool[k1] # NoTool
              /\ lastTool[k2] # NoTool
              /\ k1.assistant_id # k2.assistant_id) =>
                 lastTool[k1].inst # lastTool[k2].inst)

\* A repeated call was served from the cache after calls with other keys, one
\* of them with the same description and another assistant id.
C3_Witness ==
    /\ call # NoCall
    /\ call.hit
    /\ cache[1].key # CallKey(call)
    /\ \E k \in Keys : /\ k.description = call.description
                       /\ k.assistant_id # call.assistant_id
                       /\ lastTool[k] # NoTool

Last(s) == s[Len(s)]

\* The entries of s other than the one keyed k, in order.
Others(s, k) ==
    LET RECURSIVE F(_)
        F(t) == IF t = <<>> THEN <<>>
                ELSE IF Head(t).key = k THEN F(Tail(t))
                ELSE <<Head(t)>> \o F(Tail(t))
    IN  F(s)

\* C10: the cache never holds more than maxsize entries and no key twice; a
\* call on a cached key constructs nothing and makes the key most recently
\* used, the other entries keeping their order; a call on an uncached key
\* constructs one tool, stores it as most recently used, and drops the least
\* recently used entry, and only that one, exactly when the cache was full.
C10_BoundedLru ==
    /\ [](/\ Len(cache) <= maxsize
          /\ \A i, j \in 1..Len(cache) : cache[i].key = cache[j].key => i = j
          /\ \A i \in 1..Len(cache) :
                 /\ cache[i].key.assistant_id = cache[i].tool.retriever.filter.namespace
                 /\ cache[i].key.description = cache[i].tool.description)
    /\ [][call' # NoCall =>
            LET k == CallKey(call') IN
            IF k \in CachedKeys
            THEN /\ misses' = misses
                 /\ built' = built
                 /\ Last(cache').key = k
                 /\ Len(cache') = Len(cache)
                 /\ Others(cache', k) = Others(cache, k)
            ELSE /\ misses' = misses + 1
                 /\ built'[k] = built[k] + 1
                 /\ Last(cache').key = k
                 /\ IF Len(cache) = maxsize
                    THEN Others(cache', k) = Tail(cache)
                    ELSE Others(cache', k) = cache]_vars

\* The cache is full, an entry has been evicted, and a hit has reordered it.
C10_Witness ==
    /\ Len(cache) = maxsize
    /\ \E k \in Keys : built[k] >= 1 /\ k \notin CachedKeys
    /\ call.hit
    /\ \E i \in 1..(Len(cache) - 1) : cache[i].tool.inst[3] = 2

(***************************************************************************)
(* Properties of the registry and of the validation loop                   *)
(***************************************************************************)

\* C1 as stated: every member of AvailableTools is a key of TOOLS with exactly
\* one factory, and TOOLS has no other key, so that looking a member up never
\* fails.
C1_RegistryTotal ==
    /\ \A t \in AvailableTools : Cardinality(Entries(t)) = 1
    /\ ToolKeys \subseteq AvailableTools
    /\ (result.op = "use" => result.out # Raise("KeyError"))

\* C1 amended: every member of AvailableTools other than Retrieval is a key of
\* TOOLS with exactly one factory, Retrieval is not a key of TOOLS, and TOOLS
\* has no key outside the enumeration; looking a member up in TOOLS fails with
\* KeyError for Retrieval and for no other member.
C1_RegistryTotalButRetrieval ==
    /\ \A t \in AvailableTools \ {RETRIEVAL} : Cardinality(Entries(t)) = 1
    /\ Entries(RETRIEVAL) = {}
    /\ ToolKeys \subseteq AvailableTools
    /\ (result.op = "use" =>
          (result.out = Raise("KeyError") <=> result.key = RETRIEVAL))

\* A session has looked Retrieval up in the registry.
C1_Witness ==
    /\ pc = "done"
    /\ result.op = "use"
    /\ result.key = RETRIEVAL

\* C5 as stated: without the action runner's URL and API key in the
\* environment, the import never completes.
C5_FailsFastOnActionRunner ==
    ~(ConneryEnv \subseteq env) => pc # "done"

\* C5 amended: the validation loop never invokes the action runner's factory,
\* so no failure of the loop comes from it and the import can complete without
\* the runner's URL and API key; the missing configuration surfaces when the
\* factory is invoked after the import, which then raises.
C5_ActionRunnerSkipped ==
    /\ \A i \in 1..Len(validated) : validated[i] # CONNERY
    /\ (pc = "failed" => result.key # CONNERY)
    /\ ((result.op = "use" /\ result.key = CONNERY /\ ~(ConneryEnv \subseteq env))
          => Raised(result.out))

\* The import completed without the API key, and the action runner's factory
\* was then invoked.
C5_Witness ==
    /\ "CONNERY_RUNNER_API_KEY" \notin env
    /\ pc = "done"
    /\ result.op = "use"
    /\ result.key = CONNERY
    /\ Raised(result.out)

\* C6: the loop invokes the factories one at a time in registry order,
\* skipping only the action runner's; when the import completes every other
\* factory has been invoked exactly once and none has failed; when a factory
\* fails the loop stops at it: no later factory is invoked, nothing is
\* retried and the import never completes.
C6_SequentialAllOrNothing ==
    /\ [](/\ Len(validated) <= Len(Expected)
          /\ validated = SubSeq(Expected, 1, Len(validated)))
    /\ [](pc = "done" => validated = Expected)
    /\ [](pc # "failed" => (result.op = "validate" => ~Raised(result.out)))
    /\ [](pc = "failed" => /\ result.op = "validate"
                           /\ Raised(result.out)
                           /\ validated # <<>>
                           /\ result.key = validated[Len(validated)])
    /\ [][validated' # validated =>
             /\ pc = "validating"
             /\ Len(validated') = Len(validated) + 1]_vars
    /\ [][pc = "failed" => (pc' = "failed" /\ validated' = validated)]_vars

\* The loop stopped at a factory that is not the last one of the registry.
C6_Witness ==
    /\ pc = "failed"
    /\ Len(validated) < Len(Expected)
    /\ idx <= Len(TOOLS)

\* C8 as stated: a factory of TOOLS returns a tool or a collection of tools,
\* and neither its result nor its failure comes from the data directory.
C8_FactoriesOnlyConstruct ==
    (result.op \in {"use", "validate"} /\ result.key \in ToolKeys) =>
        /\ ~Raised(result.out) => result.out.kind \in {"tool", "tools"}
        /\ Raised(result.out) => result.out.exc # "FileNotFoundError"

(***************************************************************************)
(* Properties of create_csv, of the uploads and of the listing tool        *)
(***************************************************************************)

\* The path data/<file_name>.
InData(file_name) == Path(FALSE, <<"data">> \o file_name.parts)

\* The file at path p reads back as the header followed by the rows.
ReadsBack(p, header, data) ==
    /\ p \in DOMAIN files
    /\ csv_reader(files[p]) = <<header>> \o data

\* C7 as stated: whatever the header, the rows and the file name, once
\* create_csv has returned, the path it returned is data/<file_name>, the file
\* there reads back as the header followed by the rows in order, and the data
\* directory exists.
C7_RoundTrip ==
    (result.op = "create_csv" /\ ~Raised(result.out)) =>
        /\ result.out.path = InData(result.file_name)
        /\ ReadsBack(InData(result.file_name), result.header, result.data)
        /\ DATA \in dirs

\* C7 amended: the same for every file name that is not an absolute path; for
\* an absolute file name the path returned and written is the file name
\* itself, outside the data directory, and the file there reads back as the
\* header followed by the rows; the data directory exists in both cases.
C7_RoundTripRelative ==
    (result.op = "create_csv" /\ ~Raised(result.out)) =>
        /\ DATA \in dirs
        /\ result.out.path =
             (IF result.file_name.abs THEN result.file_name
              ELSE InData(result.file_name))
        /\ ReadsBack(result.out.path, result.header, result.data)

\* A relative name, a file that existed before, two rows, a row longer than
\* the header, and a field that has to be quoted.
C7_Witness ==
    /\ result.op = "create_csv"
    /\ ~Raised(result.out)
    /\ ~result.file_name.abs
    /\ result.existed
    /\ Len(result.data) = 2
    /\ Len(result.data[1]) > Len(result.header)
    /\ \E i \in 1..Len(result.data[1]) : needs_quotes(result.data[1][i])

Uploads == {"upload_file_to_s3", "upload_file_to_wasabi"}

\* C4 as stated: neither upload raises, whatever is missing or fails, and a
\* URL is returned only when the upload succeeded.
C4_UploadNeverRaises ==
    result.op \in Uploads =>
        /\ ~Raised(result.out)
        /\ (result.out.kind = "url" => result.sdk = "ok")

\* The names of the files create_csv has written into the data directory.
CreatedInData == {os_path_basename(p) : p \in {q \in created : os_path_dirname(q) = DATA}}

====
